---- MODULE Spec2Model ----
(***************************************************************************)
(* Model of internal/pkg/ocrschema/schema.go: the OCR template data model, *)
(* its JSON encoding, and template matching by difference hash.            *)
(*                                                                         *)
(* Representation.                                                         *)
(*   - a Go string is a sequence of one-character strings;                 *)
(*   - a uint64 is the set of its set bit positions (0 = least             *)
(*     significant), so the full 64-bit width is kept;                     *)
(*   - a *goimagehash.ImageHash is [nil, bits]; an image.Image is          *)
(*     [nil, rows], rows being the rows of gray levels;                    *)
(*   - a JSON value is [type, num, str, bool, arr, mem] (JSON section).    *)
(***************************************************************************)
EXTENDS Integers, Sequences, FiniteSets, TLC

VARIABLES
    \* differenceHashFromString under test
    fpIn, fpOut, fpPc,
    \* Matches: the image, the crop primitive's out-of-bounds behaviour, the
    \* two templates probed in sequence, the run in progress, its position
    img, cropMode, tpls, run, pc, idx, evaluated, outcome,
    \* LoadTemplate: the file's content, how many of its chunks are read
    \* before the read fails (-1: the read succeeds), the call's outcome
    file, failAt, loadOut, loadPc,
    \* encoding and decoding: the value encoded, what decoding it gives back
    rtIn, rtOut, rtPc

fpVars == <<fpIn, fpOut, fpPc>>
matchVars == <<img, cropMode, tpls, run, pc, idx, evaluated, outcome>>
loadVars == <<file, failAt, loadOut, loadPc>>
rtVars == <<rtIn, rtOut, rtPc>>

vars == <<fpVars, matchVars, loadVars, rtVars>>

----------------------------------------------------------------------------
(* Bounds *)

\* longest free-form fingerprint string tried (longer ones are built by padding)
MaxFpLen == 2
\* most checkpoints in a template
MaxCheckpoints == 2
\* widest image, in pixels
MaxWidth == 3

----------------------------------------------------------------------------
(* 64-bit values and hexadecimal strings *)

HashBits == 64
HexBase == 16
BitsPerDigit == 4

AllBits == 0 .. (HashBits - 1)

\* the bits of a digit value 0..15
DigitBits(d) == { b \in 0 .. (BitsPerDigit - 1) : (d \div 2^b) % 2 = 1 }

\* strconv.ParseUint's digit of a byte: 0-9, then letters of either case as
\* 10..35; -1 for any other byte
DigitOf(c) ==
    CASE c = "0" -> 0  [] c = "1" -> 1  [] c = "2" -> 2  [] c = "3" -> 3
      [] c = "4" -> 4  [] c = "5" -> 5  [] c = "6" -> 6  [] c = "7" -> 7
      [] c = "8" -> 8  [] c = "9" -> 9
      [] c \in {"a", "A"} -> 10 [] c \in {"b", "B"} -> 11
      [] c \in {"c", "C"} -> 12 [] c \in {"d", "D"} -> 13
      [] c \in {"e", "E"} -> 14 [] c \in {"f", "F"} -> 15
      [] c \in {"g", "G"} -> 16 [] c \in {"x", "X"} -> 33
      [] c \in {"z", "Z"} -> 35
      [] OTHER -> -1

RECURSIVE ParseUintFrom(_, _, _)
\* the loop of strconv.ParseUint(s, 16, 64) from byte k on, n accumulated
ParseUintFrom(s, k, n) ==
    IF k > Len(s) THEN [val |-> n, err |-> "nil"]
    ELSE LET d == DigitOf(s[k]) IN
         IF d < 0 \/ d >= HexBase THEN [val |-> {}, err |-> "syntax"]
         ELSE IF \E b \in n : b >= HashBits - BitsPerDigit
              THEN [val |-> AllBits, err |-> "range"]
              ELSE ParseUintFrom(s, k + 1,
                                 { b + BitsPerDigit : b \in n } \cup DigitBits(d))

\* strconv.ParseUint(s, 16, 64): (value, error)
ParseUint(s) ==
    IF Len(s) = 0 THEN [val |-> {}, err |-> "syntax"]
    ELSE ParseUintFrom(s, 1, {})

NewImageHash(bits) == [nil |-> FALSE, bits |-> bits]
NilHash == [nil |-> TRUE, bits |-> {}]

\* faulty variant: a decode error falls back to the zero hash whatever ParseUint returned
DifferenceHashFromStringZeroOnError(s) ==
    LET r == ParseUint(s) IN
    NewImageHash(IF r.err = "nil" THEN r.val ELSE {})

\* differenceHashFromString: the parse error is discarded, the value kept
differenceHashFromString(s) == NewImageHash(ParseUint(s).val)

----------------------------------------------------------------------------
(* Fingerprint strings *)

HexAlphabet == {"0", "1", "8", "c", "F", "z"}

StringsUpTo(n) == UNION { [1 .. k -> HexAlphabet] : k \in 0 .. n }

Zeros(n) == [k \in 1 .. n |-> "0"]

HexDigits == HashBits \div BitsPerDigit

\* s followed by zeros up to the full 16 digits: s in the high digits
PadRight(s) == s \o Zeros(HexDigits - Len(s))
\* s followed by 16 zeros: more than 16 digits
ShiftOut(s) == s \o Zeros(HexDigits)

FingerprintStrings ==
    LET short == StringsUpTo(MaxFpLen) IN
    short \cup { PadRight(s) : s \in short } \cup { ShiftOut(s) : s \in short }
          \cup { ShiftOut(s) \o <<"z">> : s \in short }

----------------------------------------------------------------------------
(* Go ints at full width: a sign and the set bits of the magnitude *)

WideZero == [neg |-> FALSE, bits |-> {}]

Abs(n) == IF n < 0 THEN -n ELSE n

\* the Go int of a small number
Wide(n) == [neg |-> n < 0, bits |-> { b \in 0 .. 15 : (Abs(n) \div 2^b) % 2 = 1 }]

RECURSIVE SumPow2(_)
SumPow2(S) == IF S = {} THEN 0 ELSE LET b == CHOOSE x \in S : TRUE IN 2^b + SumPow2(S \ {b})

\* the number of a Go int small enough to compute with
Narrow(w) == IF w.neg THEN -SumPow2(w.bits) ELSE SumPow2(w.bits)

\* 2^k
WidePow2(k) == [neg |-> FALSE, bits |-> {k}]
\* 2^k + n for a small n >= 0
WidePow2Plus(k, n) == [neg |-> FALSE, bits |-> {k} \cup Wide(n).bits]

\* significant bits of a float64
MantissaBits == 53

\* the float64 nearest to integer w (ties to even), as the integer it
\* equals: what decoding a JSON number into interface{} yields
Float64OfInt(w) ==
    IF w.bits = {} THEN w
    ELSE LET top == CHOOSE b \in w.bits : \A c \in w.bits : c <= b
             drop == top - (MantissaBits - 1)
         IN  IF drop <= 0 THEN w
             ELSE LET kept == { b \in w.bits : b >= drop }
                      half == (drop - 1) \in w.bits
                      sticky == \E b \in w.bits : b < drop - 1
                      odd == drop \in w.bits
                  IN  IF ~(half /\ (sticky \/ odd)) THEN [w EXCEPT !.bits = kept]
                      ELSE LET p == CHOOSE q \in drop .. (top + 1) :
                                       /\ q \notin kept
                                       /\ \A r \in drop .. (q - 1) : r \in kept
                           IN  [w EXCEPT !.bits = (kept \ (drop .. (p - 1))) \cup {p}]

\* int(f) of a float64 holding an integer below 2^63
IntOfFloat64(f) == f

----------------------------------------------------------------------------
(* Images, the crop primitive and the hash primitive *)

Gray == {0, 1}

NilImage == [nil |-> TRUE, rows |-> <<>>]
MkImage(rows) == [nil |-> FALSE, rows |-> rows]

ImgHeight(m) == Len(m.rows)
ImgWidth(m) == IF Len(m.rows) = 0 THEN 0 ELSE Len(m.rows[1])

Min(a, b) == IF a <= b THEN a ELSE b
Max(a, b) == IF a >= b THEN a ELSE b

\* image.Rect(x0, y0, x1, y1): the corners put in order
Rect(x0, y0, x1, y1) ==
    [minX |-> Min(x0, x1), minY |-> Min(y0, y1),
     maxX |-> Max(x0, x1), maxY |-> Max(y0, y1)]

\* OCRCrop.CropRectange
CropRectange(c) ==
    LET x == Narrow(c.X)
        y == Narrow(c.Y)
    IN  Rect(x, y, x + Narrow(c.W), y + Narrow(c.H))

RectEmpty(r) == r.minX >= r.maxX \/ r.minY >= r.maxY

\* whether r lies within the bounds of image m
RectInImage(r, m) ==
    \/ RectEmpty(r)
    \/ /\ 0 <= r.minX /\ r.maxX <= ImgWidth(m)
       /\ 0 <= r.minY /\ r.maxY <= ImgHeight(m)

\* the pixels of m inside r
SubImage(m, r) ==
    LET x0 == Max(r.minX, 0)
        x1 == Min(r.maxX, ImgWidth(m))
        y0 == Max(r.minY, 0)
        y1 == Min(r.maxY, ImgHeight(m))
    IN  IF x0 >= x1 \/ y0 >= y1 THEN MkImage(<<>>)
        ELSE MkImage([y \in 1 .. (y1 - y0) |->
                        [x \in 1 .. (x1 - x0) |-> m.rows[y0 + y][x0 + x]]])

\* the ways the crop primitive may treat a rectangle that does not fit
CropModes == {"nil", "clip"}

\* imgutils.CropImage(img, rect): (sub-image, error). A rectangle inside the
\* image gives its sub-image. One that does not fit may fail: with mode
\* "nil" the primitive returns no image and an error, with mode "clip" it
\* returns what of the rectangle lies in the image.
CropImage(m, r, mode) ==
    IF m.nil THEN [img |-> NilImage, err |-> TRUE]
    ELSE IF RectInImage(r, m) THEN [img |-> SubImage(m, r), err |-> FALSE]
    ELSE IF mode = "nil" THEN [img |-> NilImage, err |-> TRUE]
    ELSE [img |-> SubImage(m, r), err |-> FALSE]

\* goimagehash.DifferenceHash(img): (hash, error). A nil image is an error
\* with no hash. Otherwise the gradient bits in row-major order, the first
\* comparison in the top bit: bit set where a pixel is darker than its right
\* neighbour. (The library first resamples the image to 9x8; the images here
\* stand for the resampled grid.)
DifferenceHash(m) ==
    IF m.nil THEN [hash |-> NilHash, err |-> TRUE]
    ELSE LET w == ImgWidth(m)
             h == ImgHeight(m)
         IN  [hash |-> NewImageHash(
                  { HashBits - ((i - 1) * (w - 1) + (j - 1)) - 1 :
                      <<i, j>> \in { p \in (1 .. h) \X (1 .. (w - 1)) :
                                       m.rows[p[1]][p[2]] < m.rows[p[1]][p[2] + 1] } }),
              err |-> FALSE]

\* number of differing bits
HammingDistance(a, b) == Cardinality((a \ b) \cup (b \ a))

\* ImageHash.Distance(other): a nil hash on either side is a nil dereference
\* (panic); both hashes are difference hashes, so the kinds never differ and
\* err is nil
Distance(h, other) ==
    IF h.nil \/ other.nil THEN [panic |-> TRUE, err |-> FALSE, distance |-> 0]
    ELSE [panic |-> FALSE, err |-> FALSE,
          distance |-> HammingDistance(h.bits, other.bits)]

----------------------------------------------------------------------------
(* Matching *)

\* the distance hashMatches allows
MaxCheckpointDistance == 1

Panicked == [status |-> "panicked", value |-> FALSE]
Returned(b) == [status |-> "returned", value |-> b]
NoOutcome == [status |-> "none", value |-> FALSE]

\* faulty variant: the comparison made strict
HashMatchesStrict(b, hash) ==
    LET imghash == DifferenceHash(b).hash
        d == Distance(imghash, hash)
    IN  IF d.panic THEN Panicked
        ELSE IF d.err THEN Returned(FALSE)
        ELSE Returned(MaxCheckpointDistance > d.distance)

\* hashMatches(b, hash)
hashMatches(b, hash) ==
    LET imghash == DifferenceHash(b).hash
        d == Distance(imghash, hash)
    IN  IF d.panic THEN Panicked
        ELSE IF d.err THEN Returned(FALSE)
        ELSE Returned(MaxCheckpointDistance >= d.distance)

\* RokOCRTemplate.Hash
Hash(t) == differenceHashFromString(t.Fingerprint)

\* faulty variant: the threshold comparison made strict
MatchStrict(t, hash) ==
    LET d == Distance(Hash(t), hash) IN
    IF d.panic THEN Panicked
    ELSE IF d.err THEN Returned(FALSE)
    ELSE Returned(d.distance < t.Threshold)

\* RokOCRTemplate.Match(hash)
Match(t, hash) ==
    LET d == Distance(Hash(t), hash) IN
    IF d.panic THEN Panicked
    ELSE IF d.err THEN Returned(FALSE)
    ELSE Returned(d.distance <= t.Threshold)

----------------------------------------------------------------------------
(* Inputs of matching *)

\* a row brightening from left to right
Ramp(w) == [x \in 1 .. w |-> x - 1]

\* one-row images: every row of dark and light pixels, and the ramps
Images ==
    { MkImage(<<r>>) : r \in UNION { [1 .. w -> Gray] : w \in 1 .. MaxWidth } }
    \cup { MkImage(<<Ramp(w)>>) : w \in 1 .. MaxWidth }

\* largest whole-image threshold tried
MaxThreshold == 2
Thresholds == -1 .. MaxThreshold

TemplateFingerprints ==
    { <<"0">>, <<"z", "z">>, PadRight(<<"8">>), PadRight(<<"c">>),
      PadRight(<<"F">>), ShiftOut(<<"1">>) }

CheckpointFingerprints == { <<"z", "z">>, PadRight(<<"c">>), ShiftOut(<<"1">>) }

MkCrop(x, y, w, h) == [X |-> Wide(x), Y |-> Wide(y), W |-> Wide(w), H |-> Wide(h)]

\* what stands in the Crop field of a nil pointer
NoCrop == MkCrop(0, 0, 0, 0)

\* the whole width of the widest image, two pixels from the second on, and a
\* pixel to the right of every image
CropSet ==
    { MkCrop(0, 0, MaxWidth, 1), MkCrop(1, 0, 2, 1), MkCrop(MaxWidth, 0, 1, 1) }

\* a checkpoint: Crop is a pointer, hasCrop tells whether it is non-nil
CheckpointSet ==
    { [hasCrop |-> FALSE, Crop |-> NoCrop, Fingerprint |-> <<"z", "z">>] }
    \cup
    { [hasCrop |-> TRUE, Crop |-> c, Fingerprint |-> f] :
        c \in CropSet, f \in CheckpointFingerprints }

CheckpointLists == UNION { [1 .. n -> CheckpointSet] : n \in 1 .. MaxCheckpoints }

\* the zero value of RokOCRTemplate; OCRSchema maps field names to schemas
ZeroTemplate ==
    [Title |-> <<>>, Version |-> <<>>, Author |-> <<>>, Width |-> 0, Height |-> 0,
     OCRSchema |-> <<>>, Fingerprint |-> <<>>, Threshold |-> 0, Table |-> <<>>,
     Checkpoints |-> <<>>]

MkTemplate(f, k, cps) ==
    [ZeroTemplate EXCEPT !.Fingerprint = f, !.Threshold = k, !.Checkpoints = cps]

Templates ==
    { MkTemplate(f, k, <<>>) : f \in TemplateFingerprints, k \in Thresholds }
    \cup
    { MkTemplate(<<"0">>, 0, cps) : cps \in CheckpointLists }

\* the templates that differ from t in whole-image fingerprint and threshold only
Twins(t) ==
    { MkTemplate(v[1], v[2], t.Checkpoints) :
        v \in { <<<<"z", "z">>, -1>>, <<PadRight(<<"c">>), 1>> } }

----------------------------------------------------------------------------
(* Each specification below runs one part of the package; the variables of
   the other parts stay as these predicates leave them *)

FpIdle == fpIn = <<>> /\ fpOut = NilHash /\ fpPc = "idle"

MatchIdle ==
    /\ img = NilImage
    /\ cropMode = "clip"
    /\ tpls = <<>>
    /\ run = 0
    /\ pc = "idle"
    /\ idx = 0
    /\ evaluated = <<>>
    /\ outcome = <<>>

LoadIdle == file = <<>> /\ failAt = -1 /\ loadOut = <<>> /\ loadPc = "idle"

RtIdle == rtIn = <<>> /\ rtOut = <<>> /\ rtPc = "idle"

----------------------------------------------------------------------------
(* Matches, one loop iteration per step *)

InitMatch ==
    /\ img \in Images
    /\ cropMode \in CropModes
    /\ \E t \in Templates : \E u \in Twins(t) : tpls = <<t, u>>
    /\ run = 1
    /\ pc = "ready"
    /\ idx = 0
    /\ evaluated = <<<<>>, <<>>>>
    /\ outcome = <<NoOutcome, NoOutcome>>
    /\ FpIdle /\ LoadIdle /\ RtIdle

Finish(o) ==
    /\ outcome' = [outcome EXCEPT ![run] = o]
    /\ pc' = "done"

\* Matches, lines 65-69: hash the image; without checkpoints decide by Match
MatchesEnter ==
    /\ pc = "ready"
    /\ LET b == tpls[run]
           imageHash == DifferenceHash(img).hash
       IN  IF Len(b.Checkpoints) = 0
           THEN Finish(Match(b, imageHash)) /\ idx' = idx
           ELSE pc' = "loop" /\ idx' = 1 /\ outcome' = outcome
    /\ UNCHANGED <<img, cropMode, tpls, run, evaluated, fpVars, loadVars, rtVars>>

\* faulty variant: a failed checkpoint does not end the loop
AfterCheckpointNoShortCircuit(b, imageHash, m, i) ==
    IF m.status = "panicked" THEN [continue |-> FALSE, out |-> Panicked]
    ELSE IF i < Len(b.Checkpoints) THEN [continue |-> TRUE, out |-> NoOutcome]
    ELSE [continue |-> FALSE, out |-> Returned(m.value)]

\* faulty variant: with every checkpoint passed the whole-image match decides
AfterCheckpointThenWholeImage(b, imageHash, m, i) ==
    IF m.status = "panicked" THEN [continue |-> FALSE, out |-> Panicked]
    ELSE IF ~m.value THEN [continue |-> FALSE, out |-> Returned(FALSE)]
    ELSE IF i < Len(b.Checkpoints) THEN [continue |-> TRUE, out |-> NoOutcome]
    ELSE [continue |-> FALSE, out |-> Match(b, imageHash)]

\* Matches, lines 75-81: what follows the hashMatches result m of checkpoint
\* i: a panic unwinds, a failure returns false, the last success returns true
AfterCheckpoint(b, imageHash, m, i) ==
    IF m.status = "panicked" THEN [continue |-> FALSE, out |-> Panicked]
    ELSE IF ~m.value THEN [continue |-> FALSE, out |-> Returned(FALSE)]
    ELSE IF i < Len(b.Checkpoints) THEN [continue |-> TRUE, out |-> NoOutcome]
    ELSE [continue |-> FALSE, out |-> Returned(TRUE)]

\* Matches, lines 72-81: one iteration of the loop over the checkpoints
CheckpointStep ==
    /\ pc = "loop"
    /\ LET b == tpls[run]
           imageHash == DifferenceHash(img).hash
           s == b.Checkpoints[idx]
           expectedHash == differenceHashFromString(s.Fingerprint)
       IN  IF ~s.hasCrop
           THEN \* s.Crop.CropRectange() on a nil pointer
                Finish(Panicked) /\ UNCHANGED <<idx, evaluated>>
           ELSE LET subImg == CropImage(img, CropRectange(s.Crop), cropMode).img
                    a == AfterCheckpoint(b, imageHash, hashMatches(subImg, expectedHash), idx)
                IN  /\ evaluated' = [evaluated EXCEPT ![run] = Append(@, idx)]
                    /\ IF a.continue
                       THEN idx' = idx + 1 /\ UNCHANGED <<pc, outcome>>
                       ELSE Finish(a.out) /\ idx' = idx
    /\ UNCHANGED <<img, cropMode, tpls, run, fpVars, loadVars, rtVars>>

\* the caller probes the next template with the same image
NextTemplate ==
    /\ pc = "done"
    /\ run < Len(tpls)
    /\ run' = run + 1
    /\ pc' = "ready"
    /\ idx' = 0
    /\ UNCHANGED <<img, cropMode, tpls, evaluated, outcome, fpVars, loadVars, rtVars>>

NextMatch == MatchesEnter \/ CheckpointStep \/ NextTemplate

SpecMatch == InitMatch /\ [][NextMatch]_vars

\* every checkpoint rectangle of t that is present lies within image m
RectanglesFit(t, m) ==
    \A k \in 1 .. Len(t.Checkpoints) :
        t.Checkpoints[k].hasCrop => RectInImage(CropRectange(t.Checkpoints[k].Crop), m)

\* matching restricted to templates whose rectangles fit the image, where
\* the crop primitive cannot fail
InitMatchFit == InitMatch /\ RectanglesFit(tpls[1], img)

SpecMatchFit == InitMatchFit /\ [][NextMatch]_vars

----------------------------------------------------------------------------
(* JSON values *)

JNull == [type |-> "null", num |-> WideZero, str |-> <<>>, bool |-> FALSE,
          arr |-> <<>>, mem |-> <<>>]
JBool(b) == [JNull EXCEPT !.type = "bool", !.bool = b]
JNum(w) == [JNull EXCEPT !.type = "number", !.num = w]
JStr(s) == [JNull EXCEPT !.type = "string", !.str = s]
JArr(a) == [JNull EXCEPT !.type = "array", !.arr = a]
\* an object: its members [key, val] in document order
JObj(m) == [JNull EXCEPT !.type = "object", !.mem = m]

\* the members kept by omitempty, of candidates [key, val, omit]
OmitEmpty(cands) ==
    LET kept == SelectSeq(cands, LAMBDA c : ~c.omit) IN
    [k \in 1 .. Len(kept) |-> [key |-> kept[k].key, val |-> kept[k].val]]

Field(k, v, o) == [key |-> k, val |-> v, omit |-> o]

----------------------------------------------------------------------------
(* Values held in interface{} fields: the dynamic type and the value *)

DynNil == [gotype |-> "nil", num |-> WideZero, str |-> <<>>, bool |-> FALSE,
           elems |-> <<>>]
DynInt(w) == [DynNil EXCEPT !.gotype = "int", !.num = w]
DynFloat(w) == [DynNil EXCEPT !.gotype = "float64", !.num = w]
DynString(s) == [DynNil EXCEPT !.gotype = "string", !.str = s]
DynBool(b) == [DynNil EXCEPT !.gotype = "bool", !.bool = b]
\* a []string: its elements are DynString values
DynStrings(e) == [DynNil EXCEPT !.gotype = "[]string", !.elems = e]
\* a []interface{}
DynSlice(e) == [DynNil EXCEPT !.gotype = "[]interface{}", !.elems = e]

RECURSIVE EncodeDyn(_)
\* json.Marshal of an interface{} value
EncodeDyn(d) ==
    CASE d.gotype = "nil" -> JNull
      [] d.gotype \in {"int", "float64"} -> JNum(d.num)
      [] d.gotype = "string" -> JStr(d.str)
      [] d.gotype = "bool" -> JBool(d.bool)
      [] OTHER -> JArr([k \in 1 .. Len(d.elems) |-> EncodeDyn(d.elems[k])])

RECURSIVE DecodeDyn(_)
\* json.Unmarshal into an interface{}: numbers become float64, arrays
\* []interface{}
DecodeDyn(v) ==
    CASE v.type = "null" -> DynNil
      [] v.type = "number" -> DynFloat(Float64OfInt(v.num))
      [] v.type = "string" -> DynString(v.str)
      [] v.type = "bool" -> DynBool(v.bool)
      [] OTHER -> DynSlice([k \in 1 .. Len(v.arr) |-> DecodeDyn(v.arr[k])])

----------------------------------------------------------------------------
(* OCRCrop and ROKTableField: positional arrays *)

\* the outcome of a decoding step: "ok"; "type" (an UnmarshalTypeError, which
\* json records and decodes on); "abort" (an error returned by UnmarshalJSON,
\* which ends decoding); "panic"
Dec(st, v) == [st |-> st, val |-> v]

\* faulty variant: W and H written in the other order
CropMarshalJSONSwapped(b) == JArr(<<JNum(b.X), JNum(b.Y), JNum(b.H), JNum(b.W)>>)

\* OCRCrop.MarshalJSON
CropMarshalJSON(b) == JArr(<<JNum(b.X), JNum(b.Y), JNum(b.W), JNum(b.H)>>)

\* json.Unmarshal(data, &v) with v []interface{}: an array gives its
\* elements, null a nil slice, anything else an error
UnmarshalSlice(data) ==
    CASE data.type = "array" -> Dec("ok", [k \in 1 .. Len(data.arr) |-> DecodeDyn(data.arr[k])])
      [] data.type = "null" -> Dec("ok", <<>>)
      [] OTHER -> Dec("abort", <<>>)

\* v[i].(float64) succeeds
IsFloatAt(v, i) == i <= Len(v) /\ v[i].gotype = "float64"
IsStringAt(v, i) == i <= Len(v) /\ v[i].gotype = "string"
IsBoolAt(v, i) == i <= Len(v) /\ v[i].gotype = "bool"


\* OCRCrop.UnmarshalJSON: v[i].(float64) panics when v has no element i or
\* the element is no number
CropUnmarshalJSON(data) ==
    LET u == UnmarshalSlice(data)
        v == u.val
    IN  IF u.st # "ok" THEN Dec("abort", NoCrop)
        ELSE IF \E i \in 1 .. 4 : ~IsFloatAt(v, i) THEN Dec("panic", NoCrop)
        ELSE Dec("ok", [X |-> IntOfFloat64(v[1].num), Y |-> IntOfFloat64(v[2].num),
                        W |-> IntOfFloat64(v[3].num), H |-> IntOfFloat64(v[4].num)])

ZeroTableField == [Title |-> <<>>, Field |-> <<>>, Bold |-> FALSE, Color |-> <<>>]

\* ROKTableField.MarshalJSON
TableFieldMarshalJSON(b) ==
    JArr(<<JStr(b.Title), JStr(b.Field), JBool(b.Bold), JStr(b.Color)>>)

\* ROKTableField.UnmarshalJSON: v[0] and v[1] panic when missing and read as
\* "" when no string; v[2].(bool) and v[3].(string) panic when missing or of
\* another type
TableFieldUnmarshalJSON(data) ==
    LET u == UnmarshalSlice(data)
        v == u.val
    IN  IF u.st # "ok" THEN Dec("abort", ZeroTableField)
        ELSE IF Len(v) < 2 \/ ~IsBoolAt(v, 3) \/ ~IsStringAt(v, 4)
             THEN Dec("panic", ZeroTableField)
        ELSE Dec("ok", [Title |-> IF IsStringAt(v, 1) THEN v[1].str ELSE <<>>,
                        Field |-> IF IsStringAt(v, 2) THEN v[2].str ELSE <<>>,
                        Bold |-> v[3].bool,
                        Color |-> v[4].str])

----------------------------------------------------------------------------
(* Decoding into Go fields *)

\* the worse of two outcomes, a: of what was decoded so far, b: of the next
\* step, which runs only when a is "ok" or "type"
Worse(a, b) ==
    IF b \in {"abort", "panic"} THEN b ELSE IF a = "type" \/ b = "type" THEN "type" ELSE "ok"

Stopped(st) == st \in {"abort", "panic"}

\* a string field: null leaves it, another type is an UnmarshalTypeError
DecodeString(v, old) ==
    CASE v.type = "string" -> Dec("ok", v.str)
      [] v.type = "null" -> Dec("ok", old)
      [] OTHER -> Dec("type", old)

\* an int field
DecodeInt(v, old) ==
    CASE v.type = "number" -> Dec("ok", Narrow(v.num))
      [] v.type = "null" -> Dec("ok", old)
      [] OTHER -> Dec("type", old)

\* a *OCRCrop field, as [hasCrop, Crop]: null makes it nil, any other value
\* goes to UnmarshalJSON
DecodeCropPtr(v) ==
    IF v.type = "null" THEN Dec("ok", [hasCrop |-> FALSE, Crop |-> NoCrop])
    ELSE LET r == CropUnmarshalJSON(v) IN
         Dec(r.st, [hasCrop |-> TRUE, Crop |-> r.val])

\* the member of object v with key k, as a sequence of none or one value
Member(v, k) ==
    LET m == SelectSeq(v.mem, LAMBDA e : e.key = k) IN
    [i \in 1 .. Len(m) |-> m[i].val]

RECURSIVE DecodeElems(_, _, _, _)
\* the elements of array a from k on, decoded by dec in turn until one stops
DecodeElems(a, k, dec(_), acc) ==
    IF k > Len(a) THEN acc
    ELSE LET r == dec(a[k])
             st == Worse(acc.st, r.st)
         IN  IF Stopped(st) THEN Dec(st, acc.val)
             ELSE DecodeElems(a, k + 1, dec, Dec(st, Append(acc.val, r.val)))

\* a slice field decoded by dec
DecodeSliceOf(v, dec(_), old) ==
    CASE v.type = "array" -> DecodeElems(v.arr, 1, dec, Dec("ok", <<>>))
      [] v.type = "null" -> Dec("ok", <<>>)
      [] OTHER -> Dec("type", old)

ZeroCheckpoint == [hasCrop |-> FALSE, Crop |-> NoCrop, Fingerprint |-> <<>>]

RECURSIVE DecodeMembers(_, _, _, _)
\* the members of an object from k on, each decoded into the value so far by
\* step(acc value, key, member value), until one stops
DecodeMembers(m, k, step(_, _, _), acc) ==
    IF k > Len(m) THEN acc
    ELSE LET r == step(acc.val, m[k].key, m[k].val)
             st == Worse(acc.st, r.st)
         IN  IF Stopped(st) THEN Dec(st, r.val)
             ELSE DecodeMembers(m, k + 1, step, Dec(st, r.val))

\* one member of an OCRCheckpoint
CheckpointMember(c, key, v) ==
    CASE key = "crop" ->
            LET r == DecodeCropPtr(v) IN
            Dec(r.st, [c EXCEPT !.hasCrop = r.val.hasCrop, !.Crop = r.val.Crop])
      [] key = "fingerprint" ->
            LET r == DecodeString(v, c.Fingerprint) IN
            Dec(r.st, [c EXCEPT !.Fingerprint = r.val])
      [] OTHER -> Dec("ok", c)

\* an OCRCheckpoint
DecodeCheckpoint(v) ==
    IF v.type = "null" THEN Dec("ok", ZeroCheckpoint)
    ELSE IF v.type # "object" THEN Dec("type", ZeroCheckpoint)
    ELSE DecodeMembers(v.mem, 1, CheckpointMember, Dec("ok", ZeroCheckpoint))

ZeroSchema ==
    [Callback |-> DynNil, Languages |-> <<>>, OEM |-> 0, PSM |-> 0,
     hasCrop |-> FALSE, Crop |-> NoCrop, AllowList |-> <<>>]

\* a []interface{} field
DecodeDynSlice(v, old) ==
    CASE v.type = "array" -> Dec("ok", [k \in 1 .. Len(v.arr) |-> DecodeDyn(v.arr[k])])
      [] v.type = "null" -> Dec("ok", <<>>)
      [] OTHER -> Dec("type", old)

\* one member of a ROKOCRSchema
SchemaMember(s, key, v) ==
    CASE key = "callback" -> Dec("ok", [s EXCEPT !.Callback = DecodeDyn(v)])
      [] key = "lang" ->
            LET r == DecodeSliceOf(v, LAMBDA e : DecodeString(e, <<>>), s.Languages)
            IN  Dec(r.st, [s EXCEPT !.Languages = r.val])
      [] key = "oem" ->
            LET r == DecodeInt(v, s.OEM) IN Dec(r.st, [s EXCEPT !.OEM = r.val])
      [] key = "psm" ->
            LET r == DecodeInt(v, s.PSM) IN Dec(r.st, [s EXCEPT !.PSM = r.val])
      [] key = "crop" ->
            LET r == DecodeCropPtr(v) IN
            Dec(r.st, [s EXCEPT !.hasCrop = r.val.hasCrop, !.Crop = r.val.Crop])
      [] key = "allowlist" ->
            LET r == DecodeDynSlice(v, s.AllowList) IN
            Dec(r.st, [s EXCEPT !.AllowList = r.val])
      [] OTHER -> Dec("ok", s)

\* a ROKOCRSchema
DecodeSchema(v) ==
    IF v.type = "null" THEN Dec("ok", ZeroSchema)
    ELSE IF v.type # "object" THEN Dec("type", ZeroSchema)
    ELSE DecodeMembers(v.mem, 1, SchemaMember, Dec("ok", ZeroSchema))

\* one entry of the ocr_schema map
SchemaMapMember(m, key, v) ==
    LET r == DecodeSchema(v) IN
    Dec(r.st, [n \in DOMAIN m \cup {key} |-> IF n = key THEN r.val ELSE m[n]])

\* the map[string]ROKOCRSchema field
DecodeSchemaMap(v, old) ==
    CASE v.type = "object" -> DecodeMembers(v.mem, 1, SchemaMapMember, Dec("ok", old))
      [] v.type = "null" -> Dec("ok", <<>>)
      [] OTHER -> Dec("type", old)

\* one member of a RokOCRTemplate; a key that names no field is skipped
TemplateMember(t, key, v) ==
    CASE key = "title" ->
            LET r == DecodeString(v, t.Title) IN Dec(r.st, [t EXCEPT !.Title = r.val])
      [] key = "version" ->
            LET r == DecodeString(v, t.Version) IN Dec(r.st, [t EXCEPT !.Version = r.val])
      [] key = "author" ->
            LET r == DecodeString(v, t.Author) IN Dec(r.st, [t EXCEPT !.Author = r.val])
      [] key = "width" ->
            LET r == DecodeInt(v, t.Width) IN Dec(r.st, [t EXCEPT !.Width = r.val])
      [] key = "height" ->
            LET r == DecodeInt(v, t.Height) IN Dec(r.st, [t EXCEPT !.Height = r.val])
      [] key = "ocr_schema" ->
            LET r == DecodeSchemaMap(v, t.OCRSchema) IN
            Dec(r.st, [t EXCEPT !.OCRSchema = r.val])
      [] key = "fingerprint" ->
            LET r == DecodeString(v, t.Fingerprint) IN
            Dec(r.st, [t EXCEPT !.Fingerprint = r.val])
      [] key = "threshold" ->
            LET r == DecodeInt(v, t.Threshold) IN Dec(r.st, [t EXCEPT !.Threshold = r.val])
      [] key = "table" ->
            LET r == DecodeSliceOf(v, TableFieldUnmarshalJSON, t.Table) IN
            Dec(r.st, [t EXCEPT !.Table = r.val])
      [] key = "checkpoints" ->
            LET r == DecodeSliceOf(v, DecodeCheckpoint, t.Checkpoints) IN
            Dec(r.st, [t EXCEPT !.Checkpoints = r.val])
      [] OTHER -> Dec("ok", t)

\* json.Unmarshal of a syntactically valid document into a zero RokOCRTemplate
DecodeTemplate(v) ==
    IF v.type = "null" THEN Dec("ok", ZeroTemplate)
    ELSE IF v.type # "object" THEN Dec("type", ZeroTemplate)
    ELSE DecodeMembers(v.mem, 1, TemplateMember, Dec("ok", ZeroTemplate))

----------------------------------------------------------------------------
(* Encoding Go values *)

EncodeCropPtr(hasCrop, c) == IF hasCrop THEN CropMarshalJSON(c) ELSE JNull

EncodeCheckpoint(c) ==
    JObj(OmitEmpty(<<Field("crop", EncodeCropPtr(c.hasCrop, c.Crop), ~c.hasCrop),
                     Field("fingerprint", JStr(c.Fingerprint), c.Fingerprint = <<>>)>>))

EncodeSchema(s) ==
    JObj(OmitEmpty(
        <<Field("callback", EncodeDyn(s.Callback), s.Callback.gotype = "nil"),
          Field("lang", JArr([k \in 1 .. Len(s.Languages) |-> JStr(s.Languages[k])]),
                s.Languages = <<>>),
          Field("oem", JNum(Wide(s.OEM)), s.OEM = 0),
          Field("psm", JNum(Wide(s.PSM)), s.PSM = 0),
          Field("crop", EncodeCropPtr(s.hasCrop, s.Crop), ~s.hasCrop),
          Field("allowlist", JArr([k \in 1 .. Len(s.AllowList) |-> EncodeDyn(s.AllowList[k])]),
                s.AllowList = <<>>)>>))

\* the names a schema map may hold, in the order json.Marshal sorts them
SchemaNames == <<"kills", "power">>

EncodeSchemaMap(m) ==
    LET names == SelectSeq(SchemaNames, LAMBDA n : n \in DOMAIN m) IN
    JObj([k \in 1 .. Len(names) |-> [key |-> names[k], val |-> EncodeSchema(m[names[k]])]])

\* json.Marshal of a RokOCRTemplate: the fields in declaration order, the
\* empty ones omitted
EncodeTemplate(t) ==
    JObj(OmitEmpty(
        <<Field("title", JStr(t.Title), t.Title = <<>>),
          Field("version", JStr(t.Version), t.Version = <<>>),
          Field("author", JStr(t.Author), t.Author = <<>>),
          Field("width", JNum(Wide(t.Width)), t.Width = 0),
          Field("height", JNum(Wide(t.Height)), t.Height = 0),
          Field("ocr_schema", EncodeSchemaMap(t.OCRSchema), DOMAIN t.OCRSchema = {}),
          Field("fingerprint", JStr(t.Fingerprint), t.Fingerprint = <<>>),
          Field("threshold", JNum(Wide(t.Threshold)), t.Threshold = 0),
          Field("table", JArr([k \in 1 .. Len(t.Table) |-> TableFieldMarshalJSON(t.Table[k])]),
                t.Table = <<>>),
          Field("checkpoints",
                JArr([k \in 1 .. Len(t.Checkpoints) |-> EncodeCheckpoint(t.Checkpoints[k])]),
                t.Checkpoints = <<>>)>>))

\* NewNumberField(cropArea)
NewNumberField(hasCrop, cropArea) ==
    [Callback |-> DynStrings(<<>>),
     Languages |-> << <<"e", "n", "g">> >>,
     OEM |-> 1, PSM |-> 7, hasCrop |-> hasCrop, Crop |-> cropArea,
     AllowList |-> [k \in 1 .. 10 |-> DynInt(Wide(k - 1))]]

\* NewTextField(cropArea, languages...)
NewTextField(hasCrop, cropArea, languages) ==
    [Callback |-> DynStrings(<<>>),
     Languages |-> languages,
     OEM |-> 1, PSM |-> 7, hasCrop |-> hasCrop, Crop |-> cropArea,
     AllowList |-> <<>>]

----------------------------------------------------------------------------
(* Specification of the fingerprint decoder alone *)

InitFp ==
    /\ fpIn \in FingerprintStrings
    /\ fpOut = NilHash
    /\ fpPc = "ready"
    /\ MatchIdle /\ LoadIdle /\ RtIdle

Decode ==
    /\ fpPc = "ready"
    /\ fpOut' = differenceHashFromString(fpIn)
    /\ fpPc' = "done"
    /\ UNCHANGED <<fpIn, matchVars, loadVars, rtVars>>

NextFp == Decode

SpecFp == InitFp /\ [][NextFp]_vars

----------------------------------------------------------------------------
(* LoadTemplate *)

\* longest positional array tried
MaxArrayLen == 5

\* a file is a sequence of chunks: white space, the text of one JSON value,
\* or bytes that belong to no JSON text
WS == [kind |-> "ws", val |-> JNull]
Junk == [kind |-> "junk", val |-> JNull]
Text(v) == [kind |-> "value", val |-> v]

\* ioutil.ReadFile: the whole content and no error, or the chunks read before
\* the failure (none when the file cannot be opened) and an error
ReadFile(content, at) ==
    IF at < 0 THEN [data |-> content, err |-> FALSE]
    ELSE [data |-> SubSeq(content, 1, at), err |-> TRUE]

\* the bytes are one JSON text with optional white space around it
ValidJSON(data) ==
    /\ \A k \in 1 .. Len(data) : data[k].kind # "junk"
    /\ Cardinality({ k \in 1 .. Len(data) : data[k].kind = "value" }) = 1

TextOf(data) == data[CHOOSE k \in 1 .. Len(data) : data[k].kind = "value"].val

LoadResult(st, t, e) == [status |-> st, t |-> t, err |-> e]

\* json.Unmarshal(b, &t): a syntax error leaves t untouched; otherwise the
\* document is decoded, an error is returned if any step reported one, and
\* a panic of an UnmarshalJSON method passes through
Unmarshal(data) ==
    IF ~ValidJSON(data) THEN LoadResult("returned", ZeroTemplate, TRUE)
    ELSE LET r == DecodeTemplate(TextOf(data)) IN
         IF r.st = "panic" THEN LoadResult("panicked", ZeroTemplate, FALSE)
         ELSE LoadResult("returned", r.val, r.st # "ok")

\* LoadTemplate(fileName): the read error is discarded
LoadTemplateResult(content, at) == Unmarshal(ReadFile(content, at).data)

ArrayElements == { JNum(Wide(1)), JStr(<<"a">>), JBool(TRUE) }

\* positional arrays of every length and element type, and two values that
\* are no arrays
PositionalDocs ==
    { JArr(a) : a \in UNION { [1 .. n -> ArrayElements] : n \in 0 .. MaxArrayLen } }
    \cup { JNum(Wide(7)), JNull }

Pair(k, v) == [key |-> k, val |-> v]

DocWithCheckpointCrop(c) ==
    JObj(<<Pair("checkpoints",
                JArr(<<JObj(<<Pair("crop", c), Pair("fingerprint", JStr(<<"0">>))>>)>>))>>)

DocWithFieldCrop(c) ==
    JObj(<<Pair("ocr_schema", JObj(<<Pair("power", JObj(<<Pair("crop", c)>>))>>))>>)

DocWithColumn(e) ==
    JObj(<<Pair("title", JStr(<<"t">>)), Pair("table", JArr(<<e>>))>>)

Docs ==
    { DocWithCheckpointCrop(c) : c \in PositionalDocs }
    \cup { DocWithFieldCrop(c) : c \in PositionalDocs }
    \cup { DocWithColumn(e) : e \in PositionalDocs }
    \cup { JObj(<<>>), JArr(<<>>),
           JObj(<<Pair("fingerprint", JStr(<<"0">>)), Pair("threshold", JNum(Wide(1)))>>),
           JObj(<<Pair("title", JStr(<<"t">>)), Pair("threshold", JStr(<<"a">>))>>) }

Files ==
    { <<>>, <<WS>>, <<Junk>> }
    \cup UNION { { <<Text(d)>>, <<Text(d), WS>>, <<WS, Text(d)>>, <<Text(d), Junk>> } :
                   d \in Docs }

InitLoad ==
    /\ file \in Files
    /\ failAt \in -1 .. Len(file)
    /\ loadOut = LoadResult("none", ZeroTemplate, FALSE)
    /\ loadPc = "ready"
    /\ FpIdle /\ MatchIdle /\ RtIdle

LoadTemplate ==
    /\ loadPc = "ready"
    /\ loadOut' = LoadTemplateResult(file, failAt)
    /\ loadPc' = "done"
    /\ UNCHANGED <<file, failAt, fpVars, matchVars, rtVars>>

NextLoad == LoadTemplate

SpecLoad == InitLoad /\ [][NextLoad]_vars

----------------------------------------------------------------------------
(* Encoding a value and decoding the result *)

\* largest small crop coordinate tried
MaxCoord == 1

\* small coordinates, and integers just past the 53 bits a float64 holds
CropInts ==
    { Wide(n) : n \in -1 .. MaxCoord }
    \cup { WidePow2(MantissaBits), WidePow2Plus(MantissaBits, 1),
           WidePow2Plus(MantissaBits, 3) }

Crops == { [X |-> x, Y |-> y, W |-> w, H |-> h] : x, y, w, h \in CropInts }

Names == { <<>>, <<"a">>, <<"b">> }

Columns ==
    { [Title |-> t, Field |-> f, Bold |-> b, Color |-> c] :
        t \in Names, f \in Names, b \in BOOLEAN, c \in Names }

\* a schema whose untyped fields hold what JSON decoding produces
NativeSchema(hasCrop, cropArea) ==
    [Callback |-> DynSlice(<<DynString(<<"a">>)>>),
     Languages |-> <<>>,
     OEM |-> 0, PSM |-> 7, hasCrop |-> hasCrop, Crop |-> cropArea,
     AllowList |-> <<DynFloat(Wide(0)), DynString(<<"a">>), DynBool(TRUE)>>]

TemplateCrops ==
    { [hasCrop |-> FALSE, Crop |-> NoCrop],
      [hasCrop |-> TRUE, Crop |-> MkCrop(0, 1, 2, -1)],
      [hasCrop |-> TRUE,
       Crop |-> [X |-> WidePow2Plus(MantissaBits, 1), Y |-> Wide(0), W |-> Wide(1),
                 H |-> Wide(1)]] }

Schemas ==
    UNION { { NewNumberField(c.hasCrop, c.Crop),
              NewTextField(c.hasCrop, c.Crop, << <<"a">> >>),
              NativeSchema(c.hasCrop, c.Crop) } : c \in TemplateCrops }

SchemaMaps ==
    { <<>> } \cup { [n \in {"power"} |-> s] : s \in Schemas }
    \cup { [n \in {"kills", "power"} |-> IF n = "kills" THEN NativeSchema(FALSE, NoCrop) ELSE s] :
             s \in Schemas }

RtTemplates ==
    { [Title |-> n, Version |-> <<>>, Author |-> <<"a">>, Width |-> 0, Height |-> 2,
       OCRSchema |-> m, Fingerprint |-> f, Threshold |-> k, Table |-> tb,
       Checkpoints |-> cps] :
        n \in {<<>>, <<"a">>},
        m \in SchemaMaps,
        f \in {<<>>, <<"z", "z">>},
        k \in {-1, 0},
        tb \in {<<>>, <<[Title |-> <<"a">>, Field |-> <<>>, Bold |-> TRUE, Color |-> <<"b">>]>>},
        cps \in {<<>>} \cup
                { <<[hasCrop |-> c.hasCrop, Crop |-> c.Crop, Fingerprint |-> g]>> :
                    c \in TemplateCrops, g \in {<<>>, <<"0">>} } }

RtValue(kind, crop, col, tpl) == [kind |-> kind, crop |-> crop, col |-> col, tpl |-> tpl]

RtInputs ==
    { RtValue("crop", c, ZeroTableField, ZeroTemplate) : c \in Crops }
    \cup { RtValue("column", NoCrop, c, ZeroTemplate) : c \in Columns }
    \cup { RtValue("template", NoCrop, ZeroTableField, t) : t \in RtTemplates }

\* json.Marshal of the value (crops and columns through their pointer, which
\* is what carries MarshalJSON)
Encode(v) ==
    CASE v.kind = "crop" -> CropMarshalJSON(v.crop)
      [] v.kind = "column" -> TableFieldMarshalJSON(v.col)
      [] OTHER -> EncodeTemplate(v.tpl)

\* what decoding yields, as a value of the kind decoded
DecodedCrop(r) == [st |-> r.st, val |-> RtValue("crop", r.val, ZeroTableField, ZeroTemplate)]
DecodedColumn(r) == [st |-> r.st, val |-> RtValue("column", NoCrop, r.val, ZeroTemplate)]
DecodedTemplate(r) == [st |-> r.st, val |-> RtValue("template", NoCrop, ZeroTableField, r.val)]

\* json.Unmarshal of a text into a zero value of the given kind
DecodeAs(kind, text) ==
    CASE kind = "crop" -> DecodedCrop(CropUnmarshalJSON(text))
      [] kind = "column" -> DecodedColumn(TableFieldUnmarshalJSON(text))
      [] OTHER -> DecodedTemplate(DecodeTemplate(text))

\* the text written and what reading it back gave
Decoded(text, r) == [text |-> text, st |-> r.st, val |-> r.val]

\* json.Unmarshal of the text json.Marshal wrote for v
RoundTripOf(v, text) == Decoded(text, DecodeAs(v.kind, text))

InitRt ==
    /\ rtIn \in RtInputs
    /\ rtOut = [text |-> JNull, st |-> "none", val |-> rtIn]
    /\ rtPc = "ready"
    /\ FpIdle /\ MatchIdle /\ LoadIdle

RoundTrip ==
    /\ rtPc = "ready"
    /\ rtOut' = RoundTripOf(rtIn, Encode(rtIn))
    /\ rtPc' = "done"
    /\ UNCHANGED <<rtIn, fpVars, matchVars, loadVars>>

NextRt == RoundTrip

SpecRt == InitRt /\ [][NextRt]_vars

----------------------------------------------------------------------------
(* Properties of the fingerprint decoder *)

HexChars ==
    {"0", "1", "2", "3", "4", "5", "6", "7", "8", "9",
     "a", "b", "c", "d", "e", "f", "A", "B", "C", "D", "E", "F"}

\* the length of the longest prefix of s made of hexadecimal digits
HexPrefixLen(s) ==
    IF \A k \in 1 .. Len(s) : s[k] \in HexChars THEN Len(s)
    ELSE (CHOOSE k \in 1 .. Len(s) :
            /\ s[k] \notin HexChars
            /\ \A j \in 1 .. (k - 1) : s[j] \in HexChars) - 1

\* the number of leading "0" characters of s
LeadingZeros(s) ==
    IF \A k \in 1 .. Len(s) : s[k] = "0" THEN Len(s)
    ELSE (CHOOSE k \in 1 .. Len(s) :
            s[k] # "0" /\ \A j \in 1 .. (k - 1) : s[j] = "0") - 1

\* s is one or more hexadecimal digits and nothing else
IsHexString(s) == Len(s) > 0 /\ HexPrefixLen(s) = Len(s)

\* the hexadecimal digits s starts with, leading zeros apart, are more than
\* a 64-bit value has
Overlong(s) == HexPrefixLen(s) - Min(LeadingZeros(s), HexPrefixLen(s)) > HexDigits

\* s is not a well-formed 64-bit hexadecimal value
Malformed(s) == ~IsHexString(s) \/ Overlong(s)

\* C8 as stated: every fingerprint string that is not a well-formed 64-bit
\* hexadecimal value decodes to the hash value 0.
C8_MalformedDecodesToZero ==
    (fpPc = "done" /\ Malformed(fpIn)) => (~fpOut.nil /\ fpOut.bits = {})

\* C8 amended: a malformed fingerprint string always decodes to a hash, never
\* to an error: to 2^64-1 (all bits set) when it starts with more significant
\* hexadecimal digits than fit 64 bits, and to 0 otherwise (empty string, or
\* a character that is no hexadecimal digit).
C8_MalformedDecodesToZeroOrMax ==
    (fpPc = "done" /\ Malformed(fpIn)) =>
        /\ ~fpOut.nil
        /\ fpOut.bits = IF Overlong(fpIn) THEN AllBits ELSE {}

C8_Witness ==
    /\ fpPc = "done"
    /\ Overlong(fpIn)
    /\ IsHexString(fpIn)
    /\ fpOut.bits = AllBits

----------------------------------------------------------------------------
(* Properties of matching *)

\* the hash a fingerprint string declares
DeclaredBits(f) == differenceHashFromString(f).bits

\* checkpoint c of a template passes on image m: it has a rectangle, the crop
\* primitive yields a sub-image, and the sub-image's difference hash is within
\* distance 1 of the declared one
CheckpointPasses(m, c, mode) ==
    /\ c.hasCrop
    /\ LET sub == CropImage(m, CropRectange(c.Crop), mode).img IN
       /\ ~sub.nil
       /\ HammingDistance(DifferenceHash(sub).hash.bits, DeclaredBits(c.Fingerprint)) <= 1

MatchedTrue(r) == outcome[r].status = "returned" /\ outcome[r].value

RunDone(r) == outcome[r].status # "none"

\* C1: a template without checkpoints matches an image exactly when the
\* Hamming distance between the image's difference hash and the declared
\* fingerprint hash is at most the threshold; with threshold 0, exactly when
\* the two hashes are equal.
C1_WholeImageMatch ==
    \A r \in 1 .. 2 :
        (RunDone(r) /\ Len(tpls[r].Checkpoints) = 0) =>
            LET imgBits == DifferenceHash(img).hash.bits
                fpBits == DeclaredBits(tpls[r].Fingerprint)
            IN  /\ outcome[r].status = "returned"
                /\ outcome[r].value <=>
                      (HammingDistance(imgBits, fpBits) <= tpls[r].Threshold)
                /\ tpls[r].Threshold = 0 => (outcome[r].value <=> imgBits = fpBits)

C1_Witness ==
    /\ RunDone(1)
    /\ Len(tpls[1].Checkpoints) = 0
    /\ tpls[1].Threshold = 2
    /\ HammingDistance(DifferenceHash(img).hash.bits,
                       DeclaredBits(tpls[1].Fingerprint)) = 2
    /\ MatchedTrue(1)

\* C2: a template with checkpoints matches an image exactly when every
\* checkpoint's cropped region hashes within distance 1 of the checkpoint's
\* fingerprint, whatever the template's threshold.
C2_AllCheckpointsMatch ==
    \A r \in 1 .. 2 :
        (RunDone(r) /\ Len(tpls[r].Checkpoints) > 0) =>
            (MatchedTrue(r) <=>
                \A k \in 1 .. Len(tpls[r].Checkpoints) :
                    CheckpointPasses(img, tpls[r].Checkpoints[k], cropMode))

C2_Witness ==
    /\ RunDone(1)
    /\ Len(tpls[1].Checkpoints) = 2
    /\ tpls[1].Threshold = 0
    /\ MatchedTrue(1)
    /\ \E k \in 1 .. 2 :
          LET c == tpls[1].Checkpoints[k] IN
          HammingDistance(
              DifferenceHash(CropImage(img, CropRectange(c.Crop), cropMode).img).hash.bits,
              DeclaredBits(c.Fingerprint)) = 1

\* C3 as stated: matching never raises; every run of Matches ends by
\* returning a boolean, and a checkpoint whose rectangle is missing or does
\* not fit the image makes it return false.
C3_MatchingNeverRaises ==
    \A r \in 1 .. 2 :
        RunDone(r) =>
            /\ outcome[r].status = "returned"
            /\ (\E k \in 1 .. Len(tpls[r].Checkpoints) :
                   LET c == tpls[r].Checkpoints[k] IN
                   ~c.hasCrop \/ ~RectInImage(CropRectange(c.Crop), img))
               => ~outcome[r].value

\* C6: two templates with the same non-empty checkpoints, differing only in
\* whole-image fingerprint and threshold, give the same result on an image.
C6_CheckpointsSupersede ==
    (RunDone(1) /\ RunDone(2) /\ Len(tpls[1].Checkpoints) > 0) =>
        outcome[1] = outcome[2]

C6_Witness ==
    /\ RunDone(1) /\ RunDone(2)
    /\ Len(tpls[1].Checkpoints) > 0
    /\ tpls[1].Checkpoints = tpls[2].Checkpoints
    /\ tpls[2].Threshold < 0
    /\ Malformed(tpls[2].Fingerprint)
    /\ MatchedTrue(1) /\ MatchedTrue(2)

\* C7: checkpoints are cropped and hashed in declared order, a checkpoint
\* only after all those before it passed; once one fails Matches returns
\* false and none after it is cropped or hashed.
C7_OrderedShortCircuit ==
    \A r \in 1 .. 2 :
        LET e == evaluated[r]
            cps == tpls[r].Checkpoints
        IN  /\ Len(e) <= Len(cps)
            /\ \A k \in 1 .. Len(e) :
                  /\ e[k] = k
                  /\ \A j \in 1 .. (k - 1) : CheckpointPasses(img, cps[j], cropMode)
            /\ \A k \in 1 .. Len(e) :
                  (RunDone(r) /\ ~CheckpointPasses(img, cps[k], cropMode)) =>
                      /\ Len(e) = k
                      /\ ~MatchedTrue(r)

C7_Witness ==
    /\ RunDone(1)
    /\ Len(tpls[1].Checkpoints) = 2
    /\ evaluated[1] = <<1>>
    /\ outcome[1] = Returned(FALSE)
    /\ CheckpointPasses(img, tpls[1].Checkpoints[2], cropMode)

----------------------------------------------------------------------------
(* Properties of LoadTemplate *)

Range(q) == { q[k] : k \in 1 .. Len(q) }

\* the members named k of the values in set S
MembersOf(S, k) == UNION { Range(Member(v, k)) : v \in S }
\* the array elements of the values in set S
ElementsOf(S) == UNION { Range(v.arr) : v \in S }
\* the member values of the objects in set S
ValuesOf(S) == UNION { { m.val : m \in Range(v.mem) } : v \in S }

\* the crop texts of a document: of its checkpoints and of its field schemas
CropTexts(doc) ==
    MembersOf(ElementsOf(MembersOf({doc}, "checkpoints")), "crop")
    \cup MembersOf(ValuesOf(MembersOf({doc}, "ocr_schema")), "crop")

ColumnTexts(doc) == ElementsOf(MembersOf({doc}, "table"))

\* a crop array with fewer than 4 elements or a non-number among the first 4
BadCropArray(c) ==
    c.type = "array" /\ \E i \in 1 .. 4 : i > Len(c.arr) \/ c.arr[i].type # "number"

\* a column array with fewer than 4 elements, or not [string, string, bool, string]
BadColumnArray(e) ==
    /\ e.type = "array"
    /\ \/ Len(e.arr) < 4
       \/ \E i \in {1, 2, 4} : e.arr[i].type # "string"
       \/ e.arr[3].type # "bool"

StructurallyInvalid(doc) ==
    \/ \E c \in CropTexts(doc) : BadCropArray(c)
    \/ \E e \in ColumnTexts(doc) : BadColumnArray(e)

BytesRead == ReadFile(file, failAt).data

ReportsSuccess == loadOut.status = "returned" /\ ~loadOut.err

\* C4: LoadTemplate returns a non-nil error, and does not crash, whenever a
\* crop or table-column array of the document has fewer than 4 elements or
\* an element of the wrong type among the 4.
C4_InvalidArrayIsError ==
    (/\ loadPc = "done"
     /\ failAt < 0
     /\ ValidJSON(file)
     /\ StructurallyInvalid(TextOf(file)))
    => (loadOut.status = "returned" /\ loadOut.err)

\* C10: LoadTemplate never reports success for a source that cannot be read
\* (it returns an error and the zero template), and reports success only
\* when the bytes read form a document that deserializes.
C10_ReadFailureIsReported ==
    loadPc = "done" =>
        /\ failAt >= 0 =>
              (loadOut.status = "returned" => (loadOut.err /\ loadOut.t = ZeroTemplate))
        /\ ReportsSuccess =>
              (ValidJSON(BytesRead) /\ DecodeTemplate(TextOf(BytesRead)).st = "ok")

----------------------------------------------------------------------------
(* Properties of encoding and decoding *)

\* integer w is a float64 exactly: its set bits span at most 53 positions
Representable(w) == \A a, b \in w.bits : a - b < MantissaBits

RECURSIVE JSONNative(_)
\* an interface{} value of a type that decoding JSON produces
JSONNative(d) ==
    CASE d.gotype \in {"nil", "string", "bool"} -> TRUE
      [] d.gotype = "float64" -> Representable(d.num)
      [] d.gotype = "[]interface{}" -> \A k \in 1 .. Len(d.elems) : JSONNative(d.elems[k])
      [] OTHER -> FALSE

ExactCrop(c) == \A w \in {c.X, c.Y, c.W, c.H} : Representable(w)

ExactSchema(s) ==
    /\ JSONNative(s.Callback)
    /\ \A k \in 1 .. Len(s.AllowList) : JSONNative(s.AllowList[k])
    /\ s.hasCrop => ExactCrop(s.Crop)

ExactTemplate(t) ==
    /\ \A n \in DOMAIN t.OCRSchema : ExactSchema(t.OCRSchema[n])
    /\ \A k \in 1 .. Len(t.Checkpoints) :
          t.Checkpoints[k].hasCrop => ExactCrop(t.Checkpoints[k].Crop)

\* the value survives the conversions of JSON decoding: its crop integers
\* are float64 values and its untyped fields hold JSON's own types
Exact(v) ==
    CASE v.kind = "crop" -> ExactCrop(v.crop)
      [] v.kind = "column" -> TRUE
      [] OTHER -> ExactTemplate(v.tpl)

\* the text is the array of the four given JSON values
IsArrayOf(text, a, b, c, d) == text.type = "array" /\ text.arr = <<a, b, c, d>>

PositionalLayout ==
    /\ rtIn.kind = "crop" =>
          IsArrayOf(rtOut.text, JNum(rtIn.crop.X), JNum(rtIn.crop.Y),
                    JNum(rtIn.crop.W), JNum(rtIn.crop.H))
    /\ rtIn.kind = "column" =>
          IsArrayOf(rtOut.text, JStr(rtIn.col.Title), JStr(rtIn.col.Field),
                    JBool(rtIn.col.Bold), JStr(rtIn.col.Color))

\* C5 as stated: encoding any Template, Crop or Table Column Descriptor and
\* decoding the result gives back a value equal in all fields, a crop
\* encoded as [X, Y, W, H] and a column as [title, field, bold, color].
C5_RoundTrip ==
    rtPc = "done" => (rtOut.st = "ok" /\ rtOut.val = rtIn /\ PositionalLayout)

\* C5 amended: the same, for values whose crop integers are exactly
\* representable as float64 and whose untyped callback and allow-list values
\* have the types JSON decoding produces.
C5_RoundTripExactValues ==
    rtPc = "done" =>
        /\ rtOut.st = "ok"
        /\ PositionalLayout
        /\ Exact(rtIn) => rtOut.val = rtIn

C5_Witness ==
    /\ rtPc = "done"
    /\ rtIn.kind = "template"
    /\ DOMAIN rtIn.tpl.OCRSchema = {"kills", "power"}
    /\ rtIn.tpl.OCRSchema["power"].hasCrop
    /\ Len(rtIn.tpl.Checkpoints) = 1
    /\ rtIn.tpl.Checkpoints[1].hasCrop
    /\ Len(rtIn.tpl.Table) = 1
    /\ Exact(rtIn)
    /\ rtOut.val = rtIn

====
